---- MODULE Spec2Model ----
(***************************************************************************)
(* PW-Analyst admin front-end scripts: colour utilities, colour history,   *)
(* global tooltip manager and tooltip positioning, colour picker widget.   *)
(*                                                                         *)
(* Strings are sequences of one-character strings, so that the regular     *)
(* expressions and the formatting of the scripts are computed character    *)
(* by character.                                                           *)
(***************************************************************************)
EXTENDS Integers, Sequences, FiniteSets, TLC

VARIABLES
    \* ---- colour utilities (tag_admin.js, advanced colour picker) ----
    colorArg,        \* the string handed to isValidColor / hexToRgba
    alphaArg,        \* hexToRgba's alpha, in tenths (5 is 0.5, 10 is 1)
    call,            \* the function applied last: "none" before any call
    result,          \* what that call returned
    \* ---- colour history (advanced colour picker, localStorage) ----
    history,         \* JSON.parse(localStorage[STORAGE_KEY]) or [] when unset
    prevHistory,     \* the list as the last addToColorHistory call found it
    lastAdded,       \* the colour of the last addToColorHistory call, <<>> if none
    adds,            \* number of addToColorHistory calls so far
    lastChange,      \* record of the last 'change' event seen by the history
                     \* listener, or NoChange
    \* ---- global tooltip manager (global initializer script) ----
    attached,        \* '.global-tooltip' elements attached to document.body
    currentTooltip,  \* the element currentTooltip refers to, 0 for null
    timers,          \* pending 200 ms removal timers (all alike: FIFO)
    created,         \* number of tooltip elements created so far
    hideFollowed,    \* elements whose showTooltip a hideTooltip call has followed
    lastShow,        \* record of the last showTooltip call, or NoShow
    \* ---- tooltip positioning ----
    geom,            \* trigger rectangle, tooltip size and viewport size
    pos,             \* the position computed last, or NoPos
    \* ---- colour picker widget ----
    script,          \* which colour picker script the page loads
    listeners,       \* number of initColorPicker invocations (click listeners)
    inputValue,      \* value of the container's colour input
    valueText,       \* textContent of '.color-value'
    selected,        \* presets carrying class 'selected'
    used,            \* presets carrying class 'used'
    crosses,         \* number of '.used-cross' children of each preset
    notifications,   \* '.color-used-notification' elements appended so far
    crossTimers,     \* pending deferred addCrossesToUsedColors calls
    page,            \* what the server rendered: help text and used-colours section
    lastClick,       \* record of the last preset click, or NoClick
    \* ---- test detail panel (HTMX glue script) ----
    panelPresent,    \* whether '#test-detail-panel' and '#panel-overlay' exist
    display,         \* panel.style.display
    overlayHidden,   \* whether the overlay carries class 'hidden'
    translate0,      \* whether the panel carries class 'translate-x-0'
    translateFull,   \* whether the panel carries class 'translate-x-full'
    overflow,        \* document.body.style.overflow
    panelTimers,     \* pending panel timers in the order they were scheduled
    fadeIn,          \* swap targets carrying class 'fade-in'
    lastRequest,     \* the last of openTestPanel / closeTestPanel called
    htmxDefined,     \* typeof htmx !== 'undefined'
    glue,            \* "loading" before DOMContentLoaded, then "ready" (HTMX
                     \* listeners registered) or "nohtmx"
    csrfField,       \* value of the first [name=csrfmiddlewaretoken] element,
                     \* or Null when the document has none
    lastConfig,      \* record of the last htmx:configRequest event, or NoConfig
    \* ---- advanced colour picker ----
    advInits,        \* number of setupColorPalette runs on the picker
    advValue,        \* inputElement.value
    originalValue,   \* inputElement.dataset.originalValue, or Undefined
    advSelected,     \* colour options carrying class 'selected'
    advTimers,       \* options whose 300 ms animation timer is pending (FIFO)
    hovered,         \* the option the pointer is over, 0 for none
    background,      \* inputElement.style.backgroundColor
    textColor,       \* inputElement.style.color
    clickedInHover,  \* the option clicked since the pointer entered, 0 for none
    lastLeave,       \* record of the last mouseleave, or NoLeave
    enterValue,      \* the value before the mouseenter of a hover with no click
                     \* or typing so far, else Undefined
    \* ---- results table (test-results enhancements, table navigation) ----
    trInits,         \* runs of initializeTestResultsEnhancements so far
    navInits,        \* runs of enhanceNavigation so far
    linkCols,        \* the columns whose cells hold a link, input or button
    focus,           \* <<row, column>> of the cell holding document.activeElement
    checked,         \* rows whose checkbox is checked
    rowSelected,     \* rows carrying class 'selected'
    lastKey,         \* record of the last arrow key press, or NoKey
    lastRowClick,    \* record of the last click on a row, or NoRowClick
    \* ---- page load and navigation (global initializer and the modules) ----
    path,            \* window.location.pathname, as its segments
    url,             \* location.href, numbered by navigation
    domLoaded,       \* whether DOMContentLoaded has fired (readyState)
    globalLoaded,    \* whether the global initializer script has executed
    tagScript,       \* whether the page loads tag_admin.js
    deferredType,    \* pageType held by the DOMContentLoaded callback, or "none"
    observer,        \* whether the MutationObserver is registered
    lastUrl,         \* the observer's lastUrl
    reinitTimers,    \* pending 100 ms re-initialisation callbacks
    badInput,        \* whether the page has an unlabelled input outside any div
    featureRuns,     \* runs of initializeFeatures so far
    tagRuns,         \* runs of the tag admin initialisation so far
    pickerRuns,      \* runs of the colour picker initialisation so far
    handled,         \* calls of handleError so far
    uncaught,        \* exceptions that left the script's callbacks uncaught
    mutated,         \* whether a DOM mutation followed the last navigation
    atNav,           \* the run counts when the last navigation happened
    \* ---- tag preview (tag_admin.js) ----
    formInputs,      \* whether the tag form has both its name and colour input
    previewReady,    \* whether addTagPreview registered its listeners
    nameValue,       \* nameInput.value
    colorValue,      \* colorInput.value
    previewName,     \* previewName.textContent
    dotColor,        \* previewDot.style.backgroundColor
    tagBackground,   \* previewTag.style.backgroundColor
    tagBorder,       \* previewTag.style.borderColor
    lastInput,       \* the input whose 'input' event came last, or "none"
    \* ---- smart tooltip of one trigger (tag_admin.js, createSmartTooltip) ----
    smTooltip,       \* the closure's tooltip: a tooltip number, 0 for null
    smAttached,      \* the '.smart-tooltip' elements attached to the document
    smCreated,       \* the number of tooltips created so far
    smTimers,        \* pending timers in the order they were set
    smNextId,        \* the id setTimeout returns next
    showTimeout,     \* the closure's showTimeout, 0 for null
    hideTimeout,     \* the closure's hideTimeout, 0 for null
    smHovered,       \* whether the pointer is over the trigger
    smFocused,       \* whether the trigger has the focus
    smErrors         \* TypeErrors thrown by timer callbacks so far

colorVars   == <<colorArg, alphaArg, call, result>>
historyVars == <<history, prevHistory, lastAdded, adds, lastChange>>
tooltipVars == <<attached, currentTooltip, timers, created, hideFollowed, lastShow>>
posVars     == <<geom, pos>>
pickerVars  == <<script, listeners, inputValue, valueText, selected, used,
                 crosses, notifications, crossTimers, page, lastClick>>
panelVars   == <<panelPresent, display, overlayHidden, translate0,
                 translateFull, overflow, panelTimers, fadeIn, lastRequest,
                 htmxDefined, glue, csrfField, lastConfig>>
advVars     == <<advInits, advValue, originalValue, advSelected, advTimers,
                 hovered, background, textColor, clickedInHover, lastLeave,
                 enterValue>>
tableVars   == <<trInits, navInits, linkCols, focus, checked, rowSelected,
                 lastKey, lastRowClick>>
bootVars    == <<path, url, domLoaded, globalLoaded, tagScript, deferredType,
                 observer, lastUrl, reinitTimers, badInput, featureRuns,
                 tagRuns, pickerRuns, handled, uncaught, mutated, atNav>>
previewVars == <<formInputs, previewReady, nameValue, colorValue, previewName,
                 dotColor, tagBackground, tagBorder, lastInput>>
smartVars   == <<smTooltip, smAttached, smCreated, smTimers, smNextId,
                 showTimeout, hideTimeout, smHovered, smFocused, smErrors>>
vars == <<colorVars, historyVars, tooltipVars, posVars, pickerVars, panelVars,
          advVars, tableVars, bootVars,
                   previewVars,
                   smartVars>>

\* what an action of one script leaves alone: the state of the other scripts
exceptColor    == <<historyVars, tooltipVars, posVars, pickerVars, panelVars,
                   advVars, tableVars, bootVars,
                   previewVars,
                   smartVars>>
exceptHistory  == <<colorVars, tooltipVars, posVars, pickerVars, panelVars,
                   advVars, tableVars, bootVars,
                   previewVars,
                   smartVars>>
exceptPosition == <<colorVars, historyVars, tooltipVars, pickerVars, panelVars,
                   advVars, tableVars, bootVars,
                   previewVars,
                   smartVars>>
exceptTooltip  == <<colorVars, historyVars, pickerVars, panelVars,
                   advVars, tableVars, bootVars,
                   previewVars,
                   smartVars>>
exceptPicker   == <<colorVars, historyVars, tooltipVars, posVars, panelVars,
                   advVars, tableVars, bootVars,
                   previewVars,
                   smartVars>>
exceptAdvanced == <<colorVars, historyVars, tooltipVars, posVars, pickerVars,
                   panelVars, tableVars, bootVars,
                   previewVars,
                   smartVars>>
exceptTable    == <<colorVars, historyVars, tooltipVars, posVars, pickerVars,
                   panelVars, advVars, bootVars,
                   previewVars,
                   smartVars>>
\* the page load runs the table's initialisations: it changes trInits and
\* navInits and leaves the rest of the table alone
exceptBoot     == <<colorVars, historyVars, tooltipVars, posVars, pickerVars,
                   panelVars, advVars, linkCols, focus, checked, rowSelected,
                   lastKey, lastRowClick,
                   previewVars,
                   smartVars>>
exceptPanel    == <<colorVars, historyVars, tooltipVars, posVars, pickerVars,
                   advVars, tableVars, bootVars,
                   previewVars,
                   smartVars>>

(***************************************************************************)
(* Characters and strings                                                  *)
(***************************************************************************)
Digits   == {"0", "1", "2", "3", "4", "5", "6", "7", "8", "9"}
LowerHex == {"a", "b", "c", "d", "e", "f"}
UpperHex == {"A", "B", "C", "D", "E", "F"}

\* the character class [A-Fa-f0-9] (the same set as [a-f\d] under the i flag)
HexClass == Digits \cup LowerHex \cup UpperHex

\* String.prototype.toLowerCase on one character
LowerChar(ch) ==
    CASE ch = "A" -> "a" [] ch = "B" -> "b" [] ch = "C" -> "c"
      [] ch = "D" -> "d" [] ch = "E" -> "e" [] ch = "F" -> "f"
      [] ch = "G" -> "g" [] ch = "R" -> "r" [] ch = "L" -> "l"
      [] ch = "U" -> "u" [] OTHER -> ch

toLowerCase(s) == [i \in 1..Len(s) |-> LowerChar(s[i])]

\* parseInt(ch, 16) of one hexadecimal digit
HexDigitValue(ch) ==
    CASE ch = "0" -> 0 [] ch = "1" -> 1 [] ch = "2" -> 2 [] ch = "3" -> 3
      [] ch = "4" -> 4 [] ch = "5" -> 5 [] ch = "6" -> 6 [] ch = "7" -> 7
      [] ch = "8" -> 8 [] ch = "9" -> 9
      [] ch \in {"a", "A"} -> 10 [] ch \in {"b", "B"} -> 11
      [] ch \in {"c", "C"} -> 12 [] ch \in {"d", "D"} -> 13
      [] ch \in {"e", "E"} -> 14 [] ch \in {"f", "F"} -> 15

\* parseInt(two hexadecimal digits, 16)
parseInt16(pair) == 16 * HexDigitValue(pair[1]) + HexDigitValue(pair[2])

DigitChar(d) ==
    CASE d = 0 -> "0" [] d = 1 -> "1" [] d = 2 -> "2" [] d = 3 -> "3"
      [] d = 4 -> "4" [] d = 5 -> "5" [] d = 6 -> "6" [] d = 7 -> "7"
      [] d = 8 -> "8" [] d = 9 -> "9"

\* a non-negative integer interpolated into a template literal
RECURSIVE NumberToString(_)
NumberToString(n) ==
    IF n < 10 THEN <<DigitChar(n)>>
    ELSE Append(NumberToString(n \div 10), DigitChar(n % 10))

\* the alpha argument (tenths) interpolated into a template literal:
\* 0 gives "0", 10 gives "1", 5 gives "0.5"
AlphaToString(t) ==
    IF t % 10 = 0 THEN NumberToString(t \div 10)
    ELSE NumberToString(t \div 10) \o <<".">> \o <<DigitChar(t % 10)>>

\* every character of s from index a to index b is a hexadecimal digit
AllHex(s, a, b) == \A i \in a..b : s[i] \in HexClass

(***************************************************************************)
(* Colour utilities                                                        *)
(***************************************************************************)
\* the regular expression of isValidColor without its '$' anchor
hexRegex_Unanchored(color) ==
    /\ Len(color) >= 4
    /\ color[1] = "#"
    /\ \/ (Len(color) >= 7 /\ AllHex(color, 2, 7))
       \/ AllHex(color, 2, 4)

\* hexRegex.test(color) with hexRegex = /^#([A-Fa-f0-9]{6}|[A-Fa-f0-9]{3})$/
hexRegex(color) ==
    /\ Len(color) >= 1
    /\ color[1] = "#"
    /\ \/ (Len(color) = 7 /\ AllHex(color, 2, 7))
       \/ (Len(color) = 4 /\ AllHex(color, 2, 4))

\* isValidColor of the tag admin script
isValidColor(color) ==
    IF Len(color) = 0 THEN FALSE      \* if (!color) return false;
    ELSE hexRegex(color)

\* the same regular expression, as written in the advanced colour picker
hexRegexAdvanced(color) ==
    /\ Len(color) >= 1
    /\ color[1] = "#"
    /\ \/ (Len(color) = 7 /\ AllHex(color, 2, 7))
       \/ (Len(color) = 4 /\ AllHex(color, 2, 4))

\* CSS colour keywords the model knows (lower case)
NamedColors ==
    { <<"r", "e", "d">>, <<"b", "l", "u", "e">>, <<"g", "r", "e", "e", "n">> }

\* tempElement.style.color = color; tempElement.style.color !== '' :
\* the browser keeps the value when it parses as a CSS <color>: a keyword
\* (ASCII case-insensitive) or '#' with 3, 4, 6 or 8 hexadecimal digits
styleColorAccepts(color) ==
    \/ toLowerCase(color) \in NamedColors
    \/ /\ Len(color) \in {4, 5, 7, 9}
       /\ color[1] = "#"
       /\ AllHex(color, 2, Len(color))

\* isValidColor of the advanced colour picker script
\* an isValidColor that accepts every non-empty string
isValidColorAdvanced_NonEmpty(color) ==
    Len(color) > 0

isValidColorAdvanced(color) ==
    IF Len(color) = 0 THEN FALSE      \* if (!color) return false;
    ELSE IF hexRegexAdvanced(color) THEN TRUE
    ELSE styleColorAccepts(color)

\* the template literal `rgba(${r}, ${g}, ${b}, ${alpha})`
RgbaString(r, g, b, alpha) ==
    <<"r", "g", "b", "a", "(">> \o NumberToString(r) \o <<",", " ">>
        \o NumberToString(g) \o <<",", " ">>
        \o NumberToString(b) \o <<",", " ">>
        \o AlphaToString(alpha) \o <<")">>

\* /^#?([a-f\d]{2})([a-f\d]{2})([a-f\d]{2})$/i.exec(hex): the three captured
\* groups, or <<>> for null
hexToRgbaExec(hex) ==
    IF Len(hex) = 7 /\ hex[1] = "#" /\ AllHex(hex, 2, 7)
    THEN <<SubSeq(hex, 2, 3), SubSeq(hex, 4, 5), SubSeq(hex, 6, 7)>>
    ELSE IF Len(hex) = 6 /\ AllHex(hex, 1, 6)
    THEN <<SubSeq(hex, 1, 2), SubSeq(hex, 3, 4), SubSeq(hex, 5, 6)>>
    ELSE <<>>

hexToRgba(hex, alpha) ==
    LET groups == hexToRgbaExec(hex) IN
    IF groups # <<>>
    THEN RgbaString(parseInt16(groups[1]), parseInt16(groups[2]),
                    parseInt16(groups[3]), alpha)
    ELSE hex

\* ---- inputs of the colour utilities ----
MaxLen == 7
InputChars == {"#", "a", "F", "g"}
SampleStrings ==
    { <<"#", "f", "f", "0", "0", "0", "0">>,
      <<"#", "1", "2", "c", "D", "9", "0">>,
      <<"#", "f", "0", "0">>,
      <<"#", "0", "8", "f">>,
      <<"f", "f", "0", "0", "0", "0">>,
      <<"#", "f", "f", "0", "0", "0", "0", "8", "0">>,
      <<"#", "f", "0", "0", "8">>,
      <<"r", "e", "d">>,
      <<"R", "e", "d">>,
      <<"b", "l", "u", "e">>,
      <<"r", "e", "g">>,
      <<"#", "a", "B", "c">>,
      <<"#", "a", "b", "c", "d", "e", "f">>,
      <<"#", "a", "b", "c", "d", "e", "g">>,
      <<"#", "1", "2", "3", "4", "5", "6", "7">> }
InputStrings ==
    UNION {[1..k -> InputChars] : k \in 0..MaxLen} \cup SampleStrings
Alphas == {1, 5, 10}

InitColor ==
    /\ colorArg \in InputStrings
    /\ alphaArg = 10                     \* hexToRgba(hex, alpha = 1)
    /\ call = "none"
    /\ result = FALSE

CallIsValidColor ==
    /\ call' = "isValidColor"
    /\ result' = isValidColor(colorArg)
    /\ UNCHANGED <<colorArg, alphaArg, exceptColor>>

CallIsValidColorAdvanced ==
    /\ call' = "isValidColorAdvanced"
    /\ result' = isValidColorAdvanced(colorArg)
    /\ UNCHANGED <<colorArg, alphaArg, exceptColor>>

CallHexToRgba ==
    \E a \in Alphas :
        /\ call' = "hexToRgba"
        /\ alphaArg' = a
        /\ result' = hexToRgba(colorArg, a)
        /\ UNCHANGED <<colorArg, exceptColor>>


(***************************************************************************)
(* Colour history (initializeColorHistory of the advanced colour picker)   *)
(***************************************************************************)
MAX_HISTORY == 10

Range(seq) == {seq[i] : i \in 1..Len(seq)}

\* Array.prototype.filter(c => c !== color)
FilterOut(seq, color) == SelectSeq(seq, LAMBDA c : c # color)

\* Array.prototype.slice(0, n)
Slice0(seq, n) == SubSeq(seq, 1, IF Len(seq) < n THEN Len(seq) ELSE n)

\* variants of addToColorHistory with one statement changed
addToColorHistory_NoSlice(h, color) == <<color>> \o FilterOut(h, color)

addToColorHistory_Push(h, color) ==
    LET pushed == Append(FilterOut(h, color), color)
    IN  SubSeq(pushed, IF Len(pushed) > MAX_HISTORY THEN 2 ELSE 1, Len(pushed))

\* the list addToColorHistory(color) writes to localStorage, given the list
\* getColorHistory() returned
addToColorHistory(h, color) ==
    Slice0(<<color>> \o FilterOut(h, color), MAX_HISTORY)

\* ---- inputs of the colour history ----
NumColors == 12
MaxAdds == 3

\* the i-th colour of the palette: '#' and three digits, i = 1 is "#010"
HistoryColor(i) == <<"#", DigitChar(i \div 10), DigitChar(i % 10), "0">>
HistoryColors == {HistoryColor(i) : i \in 1..NumColors}

\* the stored list after addToColorHistory(HistoryColor(1)), ...,
\* addToColorHistory(HistoryColor(k)) on empty storage
RECURSIVE HistoryAfter(_)
HistoryAfter(k) ==
    IF k = 0 THEN <<>>
    ELSE addToColorHistory(HistoryAfter(k - 1), HistoryColor(k))

NoChange == [picker |-> FALSE, value |-> <<>>, kept |-> TRUE]

InitHistory ==
    /\ history \in {HistoryAfter(k) : k \in {0, MAX_HISTORY - 1, MAX_HISTORY}}
    /\ prevHistory = <<>>
    /\ lastAdded = <<>>
    /\ adds = 0
    /\ lastChange = NoChange

\* a change event whose value passed isValidColor: addToColorHistory(color)
AddToColorHistory ==
    \E color \in HistoryColors :
        /\ adds < MaxAdds
        /\ history' = addToColorHistory(history, color)
        /\ prevHistory' = history
        /\ lastAdded' = color
        /\ adds' = adds + 1
        /\ UNCHANGED <<lastChange, exceptHistory>>

\* the values a 'change' event finds in the target: a hex colour, a colour
\* name, the empty string, other text
ChangeValues ==
    { <<"#", "f", "f", "f">>, <<"r", "e", "d">>, <<>>, <<"z", "z">> }

\* the document 'change' listener of initializeColorHistory: the value of an
\* '.advanced-color-picker' target is added when isValidColor accepts it
HistoryChangeListener ==
    \E isPicker \in BOOLEAN, color \in ChangeValues :
        /\ adds < MaxAdds
        /\ IF isPicker /\ isValidColorAdvanced(color)
           THEN /\ history' = addToColorHistory(history, color)
                /\ prevHistory' = history
                /\ lastAdded' = color
                /\ adds' = adds + 1
           ELSE UNCHANGED <<history, prevHistory, lastAdded, adds>>
        /\ lastChange' = [picker |-> isPicker, value |-> color,
                          kept |-> history' = history]
        /\ UNCHANGED exceptHistory

(***************************************************************************)
(* Tooltip positioning (showTooltip of the global initializer, and the     *)
(* showTooltip of createSmartTooltip)                                      *)
(*                                                                         *)
(* rect.width / 2 and tooltipRect.width / 2 are halves of pixels: the left *)
(* offset is kept doubled (left2 = 2 * left) so that it stays an integer.  *)
(***************************************************************************)
Margin == 8

\* showTooltip's left without the adjustment at the right-hand edge
tooltipLeft2_NoRightClamp(g) ==
    LET l0 == 2 * g.left + g.width - g.tw
    IN  IF l0 < 2 * Margin THEN 2 * Margin ELSE l0

\* showTooltip: left, doubled
tooltipLeft2(g) ==
    LET l0 == 2 * g.left + g.width - g.tw          \* rect.left + w/2 - tw/2
        l1 == IF l0 < 2 * Margin THEN 2 * Margin ELSE l0
    IN  IF l1 + 2 * g.tw > 2 * (g.vw - Margin)
        THEN 2 * (g.vw - g.tw - Margin)
        ELSE l1

\* showTooltip: top (rect.bottom is rect.top + rect.height)
tooltipTop(g) ==
    LET t0 == (g.top + g.height) + Margin
    IN  IF t0 + g.th > g.vh - Margin
        THEN g.top - g.th - Margin
        ELSE t0

\* createSmartTooltip.showTooltip: left, doubled
smartTooltipLeft2(g) ==
    LET l0 == 2 * g.left + g.width - g.tw
        l1 == IF l0 < 2 * Margin THEN 2 * Margin ELSE l0
    IN  IF l1 + 2 * g.tw > 2 * (g.vw - Margin)
        THEN 2 * (g.vw - g.tw - Margin)
        ELSE l1

\* createSmartTooltip.showTooltip: top
smartTooltipTop(g) ==
    LET t0 == (g.top + g.height) + Margin
    IN  IF t0 + g.th > g.vh - Margin
        THEN g.top - g.th - Margin
        ELSE t0

\* ---- inputs of the positioning: pixels in steps of Unit ----
Unit == 10
MaxPos == 3
MaxSize == 3
MaxTip == 4
MaxView == 5

Geometries ==
    [ left   : {Unit * k : k \in -1..MaxPos},      \* rect.left
      top    : {Unit * k : k \in 0..MaxPos},       \* rect.top
      width  : {Unit * k : k \in 1..MaxSize},      \* rect.width
      height : {Unit * k : k \in 1..MaxSize},      \* rect.height
      tw     : {Unit * k : k \in 1..MaxTip},       \* tooltipRect.width
      th     : {Unit * k : k \in 1..MaxSize},      \* tooltipRect.height
      vw     : {Unit * k : k \in 4..MaxView},      \* window.innerWidth
      vh     : {Unit * k : k \in 4..MaxView} ]     \* window.innerHeight

NoPos == [kind |-> "none", left2 |-> 0, top |-> 0]

InitPosition ==
    /\ geom \in Geometries
    /\ pos = NoPos

\* the positioning block of the global showTooltip
PositionGlobal ==
    /\ pos' = [kind |-> "global", left2 |-> tooltipLeft2(geom), top |-> tooltipTop(geom)]
    /\ UNCHANGED <<geom, exceptPosition>>

\* the positioning block of the smart tooltip's show callback
PositionSmart ==
    /\ pos' = [kind |-> "smart", left2 |-> smartTooltipLeft2(geom),
               top |-> smartTooltipTop(geom)]
    /\ UNCHANGED <<geom, exceptPosition>>


(***************************************************************************)
(* Global tooltip manager (showTooltip / hideTooltip and their timers)     *)
(***************************************************************************)
MaxTooltips == 4
MaxTimers == 3

NoShow == [new |-> 0, before |-> {}, after |-> {}]

\* the trigger elements of the page: one row of triggers under one viewport
TriggerGeometries ==
    { [left |-> Unit * k, top |-> 0, width |-> Unit, height |-> Unit,
       tw |-> 2 * Unit, th |-> Unit, vw |-> 4 * Unit, vh |-> 4 * Unit] :
      k \in -1..MaxPos }

InitTooltip ==
    /\ attached = {}
    /\ currentTooltip = 0                \* let currentTooltip = null;
    /\ timers = 0
    /\ created = 0
    /\ hideFollowed = {}
    /\ lastShow = NoShow

\* the number of pending timers after hideTooltip() has run
timersAfterHide(cur, t) == IF cur # 0 THEN t + 1 ELSE t

\* mouseleave on a trigger: hideTooltip()
HideTooltip ==
    /\ currentTooltip # 0 => timers < MaxTimers
    /\ timers' = timersAfterHide(currentTooltip, timers)
    /\ hideFollowed' = 1..created
    /\ UNCHANGED <<attached, currentTooltip, created, lastShow, posVars,
                   exceptTooltip>>

\* the callback hideTooltip handed to setTimeout(..., 200)
RemovalTimerFires ==
    /\ timers > 0
    /\ timers' = timers - 1
    /\ attached' = IF currentTooltip # 0 /\ currentTooltip \in attached
                   THEN attached \ {currentTooltip}
                   ELSE attached
    /\ currentTooltip' = 0
    /\ UNCHANGED <<created, hideFollowed, lastShow, posVars, exceptTooltip>>

\* mouseenter on a trigger: showTooltip(element, text)
ShowTooltip ==
    \E g \in TriggerGeometries :
        LET new == created + 1 IN
        /\ created < MaxTooltips
        /\ currentTooltip # 0 => timers < MaxTimers
        /\ timers' = timersAfterHide(currentTooltip, timers)   \* hideTooltip();
        /\ hideFollowed' = 1..created
        /\ created' = new
        /\ attached' = attached \cup {new}          \* document.body.appendChild
        /\ geom' = g
        /\ pos' = [kind |-> "global", left2 |-> tooltipLeft2(g),
                   top |-> tooltipTop(g)]
        /\ currentTooltip' = new
        /\ lastShow' = [new |-> new, before |-> attached,
                        after |-> attached \cup {new}]
        /\ UNCHANGED exceptTooltip

(***************************************************************************)
(* Colour picker widget (initColorPicker, syncPresetSelection,             *)
(* addCrossesToUsedColors, showColorUsedMessage)                           *)
(***************************************************************************)
NumPresets == 2
MaxInits == 2
MaxNotifications == 2
MaxCrossTimers == 2

\* the presets of '.color-presets-container', inside the widget container
Presets == 1..NumPresets

\* data-color of preset p: '#' and six digits
PresetColor(p) == <<"#", DigitChar(p), "0", DigitChar(p), "0", "f", "f">>
PresetColors == {PresetColor(p) : p \in Presets}

\* a colour of the native colour input that is no preset
OtherColor == <<"#", "0", "0", "0", "0", "0", "0">>

\* the two colour picker scripts of the repository: the one with the
\* used-colour handling ("widget") and static/admin/js/color_picker.js ("basic")
Scripts == {"widget", "basic"}

\* lastClick: the preset clicked last, whether it carried 'used', the input
\* value before and after the click, whether a listener threw, and whether
\* the click left the selection and the notifications as they were
NoClick == [preset |-> 0, wasUsed |-> FALSE, before |-> <<>>, after |-> <<>>,
            threw |-> FALSE, selKept |-> TRUE, notesKept |-> TRUE]

\* page.helptext: the colours /#[a-fA-F0-9]{6}/g finds in #id_color_helptext
\*   ({} when the element is missing or names no colour)
\* page.section: whether '.used-colors-container' exists
\* page.sectionColors: data-color of the presets inside that section
\* page.container: whether the presets have an enclosing
\*   '.color-picker-widget-container'
\* page.input: whether that container holds the input its data-input-name names
\* page.rendUsed: the presets the template rendered with class 'used'
\* (the section's colours are read only when the help text names none, so
\* next to a help text with colours the section is empty or holds them all;
\* the template renders at most one preset as used)
Pages ==
    {pg \in [helptext : SUBSET PresetColors, section : BOOLEAN,
             sectionColors : SUBSET PresetColors,
             container : BOOLEAN, input : BOOLEAN,
             rendUsed : SUBSET Presets] :
        /\ ~pg.section => pg.sectionColors = {}
        /\ pg.helptext # {} => pg.sectionColors \in {{}, PresetColors}
        /\ pg.input => pg.container
        /\ Cardinality(pg.rendUsed) <= 1}

InitPicker ==
    /\ script \in Scripts
    /\ page \in Pages
    /\ listeners = 0
    /\ inputValue \in PresetColors \cup {OtherColor}
    /\ valueText = <<>>
    /\ selected \in {{}, {1}}            \* class 'selected' set by the template
    /\ used = page.rendUsed              \* class 'used' set by the template
    /\ crosses = [p \in Presets |-> 0]
    /\ notifications = 0
    /\ crossTimers = 0
    /\ lastClick = NoClick

\* syncPresetSelection that only adds the class and never removes it
syncPresetSelection_AddOnly(selectedColor) ==
    selected \cup {p \in Presets : PresetColor(p) = selectedColor}

\* syncPresetSelection(container, selectedColor): the presets left selected
syncPresetSelection(selectedColor) ==
    {p \in Presets : PresetColor(p) = selectedColor}

\* a marking loop that marks every preset without a cross
MarkedBy_All(usedColors, cr) ==
    {p \in Presets : cr[p] = 0}

\* the presets one marking loop of addCrossesToUsedColors marks: those whose
\* colour is in usedColors and that have no '.used-cross' child yet
MarkedBy(usedColors, cr) ==
    {p \in Presets : PresetColor(p) \in usedColors /\ cr[p] = 0}

\* addCrossesToUsedColors(): the classes and crosses it leaves
addCrossesToUsedColors(u, cr) ==
    IF page.helptext # {}
    THEN LET m == MarkedBy(page.helptext, cr)
         IN  [used |-> u \cup m,
              crosses |-> [p \in Presets |-> IF p \in m THEN 1 ELSE cr[p]]]
    ELSE LET m   == IF page.section THEN MarkedBy(page.sectionColors, cr) ELSE {}
             u2  == u \cup m
             cr2 == [p \in Presets |-> IF p \in m THEN 1 ELSE cr[p]]
         IN  [used |-> u2,
              crosses |-> [p \in Presets |->
                              IF p \in u2 /\ cr2[p] = 0 THEN 1 ELSE cr2[p]]]

\* the click handler of static/admin/js/color_picker.js: whether the click on
\* preset p is refused
clickRefusedBasic(p) == FALSE

\* the click handler of the widget script: whether the click on preset p is
\* refused (e.target.classList.contains('used'))
clickRefusedWidget(p) == p \in used

clickRefused(p) ==
    IF script = "widget" THEN clickRefusedWidget(p) ELSE clickRefusedBasic(p)

\* DOMContentLoaded, or the 100 ms callback of a formset:added event:
\* initColorPicker(), and in the widget script addVisualEffects() and
\* addCrossesToUsedColors() after it
RunInitColorPicker ==
    /\ listeners < MaxInits
    /\ script = "widget" => crossTimers < MaxCrossTimers
    /\ listeners' = listeners + 1
    /\ selected' = IF page.input THEN syncPresetSelection(inputValue)
                   ELSE selected                     \* if (colorInput) { ... }
    /\ valueText' = IF page.input /\ script = "widget" THEN inputValue
                    ELSE valueText
    /\ IF script = "widget"
       THEN LET r == addCrossesToUsedColors(used, crosses)
            IN  /\ used' = r.used
                /\ crosses' = r.crosses
                /\ crossTimers' = crossTimers + 1      \* setTimeout(..., 200)
       ELSE UNCHANGED <<used, crosses, crossTimers>>
    /\ UNCHANGED <<script, page, inputValue, notifications, lastClick,
                   exceptPicker>>

\* the 200 ms callback of initColorPicker: addCrossesToUsedColors()
CrossTimerFires ==
    /\ crossTimers > 0
    /\ crossTimers' = crossTimers - 1
    /\ LET r == addCrossesToUsedColors(used, crosses)
       IN  /\ used' = r.used
           /\ crosses' = r.crosses
    /\ UNCHANGED <<script, page, listeners, inputValue, valueText, selected,
                   notifications, lastClick, exceptPicker>>

\* container.getAttribute('data-input-name') with container the result of
\* e.target.closest('.color-picker-widget-container'): a TypeError when
\* closest() returned null
getAttributeThrows == ~page.container

\* a click on preset p: every registered document click listener runs
ClickPreset ==
    \E p \in Presets :
        /\ IF listeners = 0
           THEN UNCHANGED <<inputValue, valueText, selected, notifications>>
           ELSE IF clickRefused(p)
           THEN \* showColorUsedMessage(e.target), once per listener
                /\ notifications + listeners <= MaxNotifications
                /\ notifications' = notifications + listeners
                /\ UNCHANGED <<inputValue, valueText, selected>>
           ELSE IF getAttributeThrows \/ ~page.input
           THEN \* the listener ends with a TypeError, or skips if (colorInput)
                UNCHANGED <<inputValue, valueText, selected, notifications>>
           ELSE \* colorInput.value = color; then the change listeners
                /\ inputValue' = PresetColor(p)
                /\ valueText' = IF script = "widget" THEN PresetColor(p)
                                ELSE valueText
                /\ selected' = syncPresetSelection(PresetColor(p))
                /\ UNCHANGED notifications
        /\ lastClick' = [preset |-> p, wasUsed |-> p \in used,
                         before |-> inputValue, after |-> inputValue',
                         threw |-> /\ listeners > 0
                                   /\ ~clickRefused(p)
                                   /\ getAttributeThrows,
                         selKept |-> selected' = selected,
                         notesKept |-> notifications' = notifications]
        /\ UNCHANGED <<script, page, listeners, used, crosses, crossTimers,
                       exceptPicker>>

\* the 3 s callback of showColorUsedMessage and its 300 ms follow-up:
\* notification.remove()
NotificationExpires ==
    /\ notifications > 0
    /\ notifications' = notifications - 1
    /\ UNCHANGED <<script, page, listeners, inputValue, valueText, selected,
                   used, crosses, crossTimers, lastClick, exceptPicker>>

\* the user picks colour v in the native colour input: 'input' and 'change'
InputChange ==
    \E v \in PresetColors \cup {OtherColor} :
        /\ page.input
        /\ v # inputValue
        /\ inputValue' = v
        /\ selected' = IF listeners > 0 THEN syncPresetSelection(v) ELSE selected
        /\ valueText' = IF listeners > 0 /\ script = "widget" THEN v ELSE valueText
        /\ UNCHANGED <<script, page, listeners, used, crosses, notifications,
                       crossTimers, lastClick, exceptPicker>>

(***************************************************************************)
(* Test detail panel (openTestPanel, closeTestPanel, htmx:afterSwap and    *)
(* Escape listeners)                                                       *)
(***************************************************************************)
MaxPanelTimers == 3

\* a property or dataset entry that is not set
Undefined == <<"undefined">>

\* the result of a querySelector that matches nothing
Null == <<"null">>

csrfVars == <<htmxDefined, glue, csrfField, lastConfig>>
panelState == <<panelPresent, display, overlayHidden, translate0,
                translateFull, overflow, panelTimers, fadeIn, lastRequest>>

\* values of the csrfmiddlewaretoken field
Tokens == { <<"t", "1">>, <<"t", "2">>, <<>> }
FieldValues == Tokens \cup {Null}

\* evt.detail.headers as htmx built them: the headers it always sends, with
\* or without an X-CSRFToken from an hx-headers attribute
HeaderNames == {"HX-Request", "HX-Current-URL", "X-CSRFToken"}
RequestHeaders ==
    {h \in [HeaderNames -> {<<"t", "r", "u", "e">>, <<"/">>, <<"t", "0">>,
                            Undefined}] :
        /\ h["HX-Request"] = <<"t", "r", "u", "e">>
        /\ h["HX-Current-URL"] = <<"/">>
        /\ h["X-CSRFToken"] \in {Undefined, <<"t", "0">>}}

NoConfig == [ready |-> FALSE, field |-> Null,
             before |-> [n \in HeaderNames |-> Undefined],
             after |-> [n \in HeaderNames |-> Undefined]]

\* a configRequest listener that keeps an X-CSRFToken the request already has
configRequest_KeepExisting(headers, field) ==
    IF field # Null /\ headers["X-CSRFToken"] = Undefined
    THEN [headers EXCEPT !["X-CSRFToken"] = field]
    ELSE headers

\* the htmx:configRequest listener: evt.detail.headers after it ran, field
\* being the value of document.querySelector('[name=csrfmiddlewaretoken]')
configRequest(headers, field) ==
    IF field # Null
    THEN [headers EXCEPT !["X-CSRFToken"] = field]
    ELSE headers

\* DOMContentLoaded of the HTMX glue script
GlueDOMContentLoaded ==
    /\ glue = "loading"
    /\ glue' = IF htmxDefined THEN "ready" ELSE "nohtmx"
    /\ UNCHANGED <<htmxDefined, csrfField, lastConfig, panelState, exceptPanel>>

\* htmx dispatches htmx:configRequest for a request with headers h
ConfigRequest ==
    \E h \in RequestHeaders :
        /\ htmxDefined
        /\ lastConfig' = [ready |-> glue = "ready", field |-> csrfField,
                          before |-> h,
                          after |-> IF glue = "ready"
                                    THEN configRequest(h, csrfField) ELSE h]
        /\ UNCHANGED <<htmxDefined, glue, csrfField, panelState, exceptPanel>>

\* the page's form is replaced, its token rotated, or the form removed
CsrfFieldChanges ==
    \E f \in FieldValues :
        /\ f # csrfField
        /\ csrfField' = f
        /\ UNCHANGED <<htmxDefined, glue, lastConfig, panelState, exceptPanel>>

\* the elements an htmx swap can target
SwapTargets == {"test-detail-panel", "results-list"}

\* the closed panel as the page is rendered
InitPanel ==
    /\ panelPresent \in BOOLEAN
    /\ display = "none"
    /\ overlayHidden = TRUE
    /\ translate0 = FALSE
    /\ translateFull = TRUE
    /\ overflow = ""
    /\ panelTimers = <<>>
    /\ fadeIn = {}
    /\ lastRequest = "none"
    /\ htmxDefined \in BOOLEAN
    /\ glue = "loading"
    /\ csrfField \in FieldValues
    /\ lastConfig = NoConfig

\* window.openTestPanel()
openTestPanel ==
    /\ lastRequest' = "open"
    /\ IF panelPresent                              \* if (panel && overlay)
       THEN /\ Len(panelTimers) < MaxPanelTimers
            /\ display' = "block"
            /\ overlayHidden' = FALSE
            /\ panelTimers' = Append(panelTimers, "open")   \* setTimeout(.., 10)
            /\ overflow' = "hidden"
            /\ UNCHANGED <<translate0, translateFull>>
       ELSE UNCHANGED <<display, overlayHidden, translate0, translateFull,
                        overflow, panelTimers>>

\* window.closeTestPanel()
closeTestPanel ==
    /\ lastRequest' = "close"
    /\ IF panelPresent                              \* if (panel && overlay)
       THEN /\ Len(panelTimers) < MaxPanelTimers
            /\ translate0' = FALSE
            /\ translateFull' = TRUE
            /\ panelTimers' = Append(panelTimers, "close")  \* setTimeout(.., 300)
            /\ UNCHANGED <<display, overlayHidden, overflow>>
       ELSE UNCHANGED <<display, overlayHidden, translate0, translateFull,
                        overflow, panelTimers>>

\* a direct call of openTestPanel()
OpenTestPanel ==
    /\ openTestPanel
    /\ UNCHANGED <<panelPresent, fadeIn, csrfVars, exceptPanel>>

\* a direct call of closeTestPanel()
CloseTestPanel ==
    /\ closeTestPanel
    /\ UNCHANGED <<panelPresent, fadeIn, csrfVars, exceptPanel>>

\* keydown with e.key === 'Escape'
EscapeKey ==
    /\ closeTestPanel
    /\ UNCHANGED <<panelPresent, fadeIn, csrfVars, exceptPanel>>

\* htmx:afterSwap on document.body with evt.detail.target = t
AfterSwap ==
    \E t \in SwapTargets :
        /\ glue = "ready"
        /\ fadeIn' = fadeIn \cup {t}
        /\ IF t = "test-detail-panel"
           THEN openTestPanel
           ELSE UNCHANGED <<display, overlayHidden, translate0, translateFull,
                            overflow, panelTimers, lastRequest>>
        /\ UNCHANGED <<panelPresent, csrfVars, exceptPanel>>

\* the timer at index i may fire next: timers of one delay fire in the order
\* they were scheduled, and a 10 ms timer scheduled before a 300 ms timer
\* fires before it; a 10 ms timer may overtake earlier 300 ms timers
mayFire(i) ==
    /\ i \in 1..Len(panelTimers)
    /\ \A j \in 1..(i - 1) :
          /\ panelTimers[j] # panelTimers[i]
          /\ panelTimers[j] # "open"

\* panelTimers without the timer at index i
withoutTimer(i) ==
    SubSeq(panelTimers, 1, i - 1) \o SubSeq(panelTimers, i + 1, Len(panelTimers))

\* the 10 ms callback of openTestPanel
OpenTimerFires ==
    \E i \in 1..Len(panelTimers) :
        /\ panelTimers[i] = "open"
        /\ mayFire(i)
        /\ panelTimers' = withoutTimer(i)
        /\ translateFull' = FALSE
        /\ translate0' = TRUE
        /\ UNCHANGED <<panelPresent, display, overlayHidden, overflow, fadeIn,
                       lastRequest, csrfVars, exceptPanel>>

\* the 300 ms callback of closeTestPanel
CloseTimerFires ==
    \E i \in 1..Len(panelTimers) :
        /\ panelTimers[i] = "close"
        /\ mayFire(i)
        /\ panelTimers' = withoutTimer(i)
        /\ display' = "none"
        /\ overlayHidden' = TRUE
        /\ overflow' = ""
        /\ UNCHANGED <<panelPresent, translate0, translateFull, fadeIn,
                       lastRequest, csrfVars, exceptPanel>>

(***************************************************************************)
(* Advanced colour picker (setupColorPalette, updateSelectedColor,         *)
(* previewColor, resetColorPreview)                                        *)
(***************************************************************************)
NumOptions == 2
MaxAdvInits == 2
MaxAdvTimers == 2

\* the '.color-option' elements of the palette container
Options == 1..NumOptions

\* data-color of option o: the template writes some in upper case
OptionColor(o) ==
    IF o % 2 = 0
    THEN <<"#", DigitChar(o), "0", DigitChar(o), "0", "F", "F">>
    ELSE <<"#", DigitChar(o), "0", DigitChar(o), "0", "f", "f">>

\* what the user can type into the text input
TypedValues ==
    {OptionColor(o) : o \in Options} \cup {toLowerCase(OptionColor(o)) : o \in Options}
        \cup {<<>>, <<"#", "f", "f", "f">>}

NoLeave == [committed |-> Undefined, value |-> <<>>, before |-> Undefined,
            cleared |-> TRUE]

\* hexColor.replace('#', ''): the string without its first '#'
removeFirstHash(str) ==
    IF \E i \in 1..Len(str) : str[i] = "#"
    THEN LET i == CHOOSE k \in 1..Len(str) :
                      /\ str[k] = "#"
                      /\ \A j \in 1..(k - 1) : str[j] # "#"
         IN  SubSeq(str, 1, i - 1) \o SubSeq(str, i + 1, Len(str))
    ELSE str

\* hex.substr(start, 2), start counted from 0
substr2(str, start) ==
    SubSeq(str, start + 1, IF start + 2 <= Len(str) THEN start + 2 ELSE Len(str))

\* parseInt(str, 16) of a string of at most two characters: the value of
\* its longest prefix of hexadecimal digits, -1 standing for NaN
parseIntPrefix16(str) ==
    IF Len(str) = 0 \/ str[1] \notin HexClass THEN -1
    ELSE IF Len(str) >= 2 /\ str[2] \in HexClass
         THEN 16 * HexDigitValue(str[1]) + HexDigitValue(str[2])
         ELSE HexDigitValue(str[1])

\* getContrastColor(hexColor): black on a light colour, white otherwise
\* (luminance > 0.5 is 299 r + 587 g + 114 b > 127500; NaN compares false)
getContrastColor(hexColor) ==
    LET hex == removeFirstHash(hexColor)
        r == parseIntPrefix16(substr2(hex, 0))
        g == parseIntPrefix16(substr2(hex, 2))
        b == parseIntPrefix16(substr2(hex, 4))
    IN  IF r >= 0 /\ g >= 0 /\ b >= 0 /\ 299 * r + 587 * g + 114 * b > 127500
        THEN <<"#", "0", "0", "0", "0", "0", "0">>
        ELSE <<"#", "f", "f", "f", "f", "f", "f">>

\* the inline style both updateSelectedColor and resetColorPreview leave
styleFor(currentColor) ==
    IF isValidColorAdvanced(currentColor)
    THEN [background |-> currentColor, color |-> getContrastColor(currentColor)]
    ELSE [background |-> <<>>, color |-> <<>>]

\* updateSelectedColor: the options left with class 'selected'
updateSelectedColor(value) ==
    {o \in Options : toLowerCase(OptionColor(o)) = toLowerCase(value)}

InitAdvanced ==
    /\ advInits = 0
    /\ advValue \in TypedValues
    /\ originalValue = Undefined
    /\ advSelected = {}
    /\ advTimers = <<>>
    /\ hovered = 0
    /\ background = <<>>
    /\ textColor = <<>>
    /\ clickedInHover = 0
    /\ lastLeave = NoLeave
    /\ enterValue = Undefined

\* DOMContentLoaded or PWAnalystColorPicker.initialize():
\* initializeAdvancedColorPickers() runs setupColorPalette on the picker
SetupColorPalette ==
    /\ advInits < MaxAdvInits
    /\ advInits' = advInits + 1
    /\ advSelected' = updateSelectedColor(advValue)
    /\ background' = styleFor(toLowerCase(advValue)).background
    /\ textColor' = styleFor(toLowerCase(advValue)).color
    /\ UNCHANGED <<advValue, originalValue, advTimers, hovered, clickedInHover,
                   lastLeave, enterValue, exceptAdvanced>>

\* n copies of option o
RECURSIVE Copies(_, _)
Copies(o, n) == IF n = 0 THEN <<>> ELSE <<o>> \o Copies(o, n - 1)

\* a click on option o: each click listener sets the value, updates the
\* selection, dispatches change, marks the option and starts a 300 ms timer
ClickOption ==
    \E o \in Options :
        /\ hovered \in {0, o}
        /\ Len(advTimers) + advInits <= MaxAdvTimers
        /\ IF advInits = 0
           THEN UNCHANGED <<advValue, advSelected, advTimers, background,
                            textColor>>
           ELSE /\ advValue' = OptionColor(o)
                /\ advSelected' = updateSelectedColor(OptionColor(o)) \cup {o}
                /\ background' = styleFor(toLowerCase(OptionColor(o))).background
                /\ textColor' = styleFor(toLowerCase(OptionColor(o))).color
                /\ advTimers' = advTimers \o Copies(o, advInits)
        /\ clickedInHover' = IF advInits = 0 THEN clickedInHover ELSE o
        /\ enterValue' = Undefined
        /\ UNCHANGED <<advInits, originalValue, hovered, lastLeave,
                       exceptAdvanced>>

\* the 300 ms callback of the click listener: this.classList.remove('selected')
SelectionTimerFires ==
    /\ advTimers # <<>>
    /\ advSelected' = advSelected \ {Head(advTimers)}
    /\ advTimers' = Tail(advTimers)
    /\ UNCHANGED <<advInits, advValue, originalValue, hovered, background,
                   textColor, clickedInHover, lastLeave, enterValue,
                   exceptAdvanced>>

\* mouseenter on option o: previewColor(inputElement, color) in each listener
MouseEnterOption ==
    \E o \in Options :
        /\ hovered = 0
        /\ hovered' = o
        /\ clickedInHover' = 0
        /\ enterValue' = advValue
        /\ IF advInits = 0
           THEN UNCHANGED <<advValue, originalValue, background, textColor>>
           ELSE /\ originalValue' = IF advInits = 1 THEN advValue
                                    ELSE OptionColor(o)
                /\ advValue' = OptionColor(o)
                /\ background' = OptionColor(o)
                /\ textColor' = getContrastColor(OptionColor(o))
        /\ UNCHANGED <<advInits, advSelected, advTimers, lastLeave,
                       exceptAdvanced>>

\* mouseleave on the hovered option: resetColorPreview(inputElement) in each
\* listener; the first deletes dataset.originalValue, the others find none
MouseLeaveOption ==
    /\ hovered # 0
    /\ hovered' = 0
    /\ clickedInHover' = 0
    /\ IF advInits = 0 \/ originalValue = Undefined
       THEN UNCHANGED <<advValue, originalValue, background, textColor>>
       ELSE /\ advValue' = originalValue
            /\ originalValue' = Undefined
            /\ background' = styleFor(originalValue).background
            /\ textColor' = styleFor(originalValue).color
    /\ lastLeave' = [committed |-> IF clickedInHover = 0 THEN Undefined
                                   ELSE OptionColor(clickedInHover),
                     value |-> advValue',
                     before |-> enterValue,
                     cleared |-> originalValue' = Undefined]
    /\ enterValue' = Undefined
    /\ UNCHANGED <<advInits, advSelected, advTimers, exceptAdvanced>>

\* the user types value v into the input: 'input' and 'change' listeners
TypeValue ==
    \E v \in TypedValues :
        /\ v # advValue
        /\ advValue' = v
        /\ clickedInHover' = 0
        /\ enterValue' = Undefined
        /\ IF advInits = 0
           THEN UNCHANGED <<advSelected, background, textColor>>
           ELSE /\ advSelected' = updateSelectedColor(v)
                /\ background' = styleFor(toLowerCase(v)).background
                /\ textColor' = styleFor(toLowerCase(v)).color
        /\ UNCHANGED <<advInits, originalValue, advTimers, hovered, lastLeave,
                       exceptAdvanced>>

(***************************************************************************)
(* Results table: row selection (enhanceTableInteractions) and arrow-key   *)
(* navigation (handleTableNavigation on the table, addKeyboardNavigation   *)
(* on the document)                                                        *)
(***************************************************************************)
NumRows == 3
NumCols == 3
MaxTrInits == 2
MaxNavInits == 2

\* the rows of the table body and the cells of a row
Rows == 1..NumRows
Cols == 1..NumCols

ArrowKeys == {"ArrowUp", "ArrowDown", "ArrowLeft", "ArrowRight"}

\* what a click on a row can hit: plain cell content, a link, the checkbox
ClickTargets == {"TD", "A", "INPUT"}

NoKey == [key |-> "none", both |-> FALSE, steps |-> 0, expected |-> 0]
NoRowClick == [target |-> "none", inits |-> 0, flipped |-> FALSE,
               agrees |-> TRUE]

InitTable ==
    /\ trInits = 0
    /\ navInits \in 0..MaxNavInits
    /\ linkCols \in {Cols, {1}}
    /\ focus \in Rows \X linkCols
    /\ checked = {}
    /\ rowSelected = {}
    /\ lastKey = NoKey
    /\ lastRowClick = NoRowClick

\* targetCell of the switch on e.key: the adjacent cell, <<0, 0>> for null
targetCell(cell, key) ==
    LET r == cell[1]
        c == cell[2]
    IN  CASE key = "ArrowUp"    -> IF r > 1 THEN <<r - 1, c>> ELSE <<0, 0>>
          [] key = "ArrowDown"  -> IF r < NumRows THEN <<r + 1, c>> ELSE <<0, 0>>
          [] key = "ArrowLeft"  -> IF c > 1 THEN <<r, c - 1>> ELSE <<0, 0>>
          [] key = "ArrowRight" -> IF c < NumCols THEN <<r, c + 1>> ELSE <<0, 0>>

\* (targetCell.querySelector('a, input, button') || targetCell).focus():
\* a cell without such an element has no tabindex and cannot take the focus
canFocus(cell) == cell # <<0, 0>> /\ cell[2] \in linkCols

\* the cell focused after one listener has handled the key for cell 'from'
\* while the focus is on cell 'cur'
focusAfter(from, cur, key) ==
    IF canFocus(targetCell(from, key)) THEN targetCell(from, key) ELSE cur

\* the table's keydown listeners (handleTableNavigation): each starts from
\* e.target, the cell focused when the key was pressed
afterTableListeners(from, key) ==
    IF navInits > 0 THEN focusAfter(from, from, key) ELSE from

\* the document's keydown listeners (addKeyboardNavigation): each starts
\* from document.activeElement as the listeners before it left it
RECURSIVE afterDocumentListeners(_, _, _)
afterDocumentListeners(cur, key, n) ==
    IF n = 0 THEN cur
    ELSE afterDocumentListeners(focusAfter(cur, cur, key), key, n - 1)

\* the number of cells between two cells of one row or one column
distance(a, b) ==
    (IF a[1] > b[1] THEN a[1] - b[1] ELSE b[1] - a[1])
        + (IF a[2] > b[2] THEN a[2] - b[2] ELSE b[2] - a[2])

\* window.PWAnalystTestResults.initialize(): every row gets one more click
\* listener and the document one more keydown listener (row numbers,
\* tabindex and status icons are added once only)
InitializeTestResults ==
    /\ trInits < MaxTrInits
    /\ trInits' = trInits + 1
    /\ UNCHANGED <<navInits, linkCols, focus, checked, rowSelected, lastKey,
                   lastRowClick, exceptTable>>

\* an arrow key pressed on the focused cell: the event bubbles through the
\* table's listeners and then the document's
PressArrowKey ==
    \E key \in ArrowKeys :
        LET to == afterDocumentListeners(afterTableListeners(focus, key),
                                         key, trInits)
        IN  /\ focus' = to
            /\ lastKey' = [key |-> key,
                           both |-> navInits > 0 /\ trInits > 0,
                           steps |-> distance(focus, to),
                           expected |-> IF canFocus(targetCell(focus, key))
                                        THEN 1 ELSE 0]
            /\ UNCHANGED <<trInits, navInits, linkCols, checked, rowSelected,
                           lastRowClick, exceptTable>>

\* the checkbox of row r after n row listeners have toggled it
toggled(r, n) ==
    IF n % 2 = 1
    THEN (IF r \in checked THEN checked \ {r} ELSE checked \cup {r})
    ELSE checked

\* a click inside row r on an element with tag t: the browser toggles a
\* clicked checkbox; each row listener returns for A and INPUT and
\* otherwise toggles the checkbox and sets class 'selected' from it
ClickRow ==
    \E r \in Rows, t \in ClickTargets :
        /\ checked' = IF t = "INPUT" THEN toggled(r, 1)
                      ELSE IF t = "A" THEN checked
                      ELSE toggled(r, trInits)
        /\ rowSelected' = IF t = "TD" /\ trInits > 0
                          THEN (IF r \in checked'
                                THEN rowSelected \cup {r}
                                ELSE rowSelected \ {r})
                          ELSE rowSelected
        /\ lastRowClick' = [target |-> t, inits |-> trInits,
                            flipped |-> (r \in checked') # (r \in checked),
                            agrees |-> (r \in rowSelected') = (r \in checked')]
        /\ UNCHANGED <<trInits, navInits, linkCols, focus, lastKey,
                       exceptTable>>

(***************************************************************************)
(* Page load and navigation: the global initializer (detectPage,           *)
(* initializeFeatures, initialize, handleError) and the DOMContentLoaded   *)
(* listeners of the other scripts, each module's initialisation counted    *)
(***************************************************************************)
MaxNavigations == 2
MaxFeatureRuns == 3

\* pathnames as sequences of segments: <<"admin", "core", "tag">> is
\* '/admin/core/tag/'
Paths ==
    { <<"admin", "core", "testresult">>,
      <<"admin", "core", "tag">>,
      <<"admin", "core", "testexecution">>,
      <<"admin", "auth">>,
      <<"reports">>,
      <<"app", "admin", "core", "testresult">> }

\* path.includes('/' + seg[1] + '/' + ... + '/')
includes(pathname, segs) ==
    \E i \in 1..Len(pathname) :
        /\ i + Len(segs) - 1 <= Len(pathname)
        /\ SubSeq(pathname, i, i + Len(segs) - 1) = segs

detectPage(pathname) ==
    IF includes(pathname, <<"admin", "core", "testresult">>) THEN "test-results"
    ELSE IF includes(pathname, <<"admin", "core", "tag">>) THEN "tags"
    ELSE IF includes(pathname, <<"admin", "core", "testexecution">>)
         THEN "executions"
    ELSE IF includes(pathname, <<"admin">>) THEN "admin"
    ELSE "unknown"

NoRuns == [features |-> 0, testResults |-> 0, tag |-> 0, picker |-> 0]

InitBoot ==
    /\ path \in Paths
    /\ url = 0
    /\ domLoaded = FALSE
    /\ globalLoaded = FALSE
    /\ tagScript \in BOOLEAN
    /\ deferredType = "none"
    /\ observer = FALSE
    /\ lastUrl = 0
    /\ reinitTimers = 0
    /\ badInput \in BOOLEAN
    /\ featureRuns = 0
    /\ tagRuns = 0
    /\ pickerRuns = 0
    /\ handled = 0
    /\ uncaught = 0
    /\ mutated = FALSE
    /\ atNav = NoRuns

\* enhanceAccessibility: input.closest('div').querySelector('label') is a
\* TypeError for an input that has no enclosing div
enhanceAccessibilityThrows == badInput

\* whether initializeFeatures(pageType) runs PWAnalystTestResults.initialize()
activatesTestResults(pageType) == pageType = "test-results" /\ tagScript

\* initializeFeatures(pageType): the test-results enhancements where the
\* page type asks for them, the tooltips, enhanceNavigation, and then
\* enhanceAccessibility, which may throw; extra is 1 when the same event
\* has already run initializeTestResultsEnhancements once
initializeFeatures(pageType, extra) ==
    /\ featureRuns' = featureRuns + 1
    /\ trInits' = trInits + extra
                    + (IF activatesTestResults(pageType) THEN 1 ELSE 0)
    /\ navInits' = navInits + 1

\* the global initializer script executes: initialize()
LoadGlobalScript ==
    /\ ~globalLoaded
    /\ globalLoaded' = TRUE
    /\ IF ~domLoaded                       \* document.readyState === 'loading'
       THEN /\ deferredType' = detectPage(path)
            /\ observer' = TRUE
            /\ lastUrl' = url
            /\ UNCHANGED <<featureRuns, trInits, navInits, handled>>
       ELSE /\ initializeFeatures(detectPage(path), 0)
            /\ IF enhanceAccessibilityThrows
               THEN \* catch (error) { handleError(error); }
                    /\ handled' = handled + 1
                    /\ UNCHANGED <<observer, lastUrl>>
               ELSE /\ observer' = TRUE
                    /\ lastUrl' = url
                    /\ UNCHANGED handled
            /\ UNCHANGED deferredType
    /\ UNCHANGED <<path, url, domLoaded, tagScript, reinitTimers, badInput,
                   tagRuns, pickerRuns, uncaught, mutated, atNav, exceptBoot>>

\* DOMContentLoaded: the listeners of tag_admin.js (tag admin and
\* test-results enhancements), of the colour picker script, and the
\* callback the global initializer registered, if it did
DOMContentLoaded ==
    /\ ~domLoaded
    /\ domLoaded' = TRUE
    /\ tagRuns' = IF tagScript THEN tagRuns + 1 ELSE tagRuns
    /\ pickerRuns' = pickerRuns + 1
    /\ IF deferredType # "none"
       THEN /\ initializeFeatures(deferredType, IF tagScript THEN 1 ELSE 0)
            /\ uncaught' = IF enhanceAccessibilityThrows THEN uncaught + 1
                           ELSE uncaught
       ELSE /\ trInits' = IF tagScript THEN trInits + 1 ELSE trInits
            /\ UNCHANGED <<featureRuns, navInits, uncaught>>
    /\ UNCHANGED <<path, url, globalLoaded, tagScript, deferredType, observer,
                   lastUrl, reinitTimers, badInput, handled, mutated, atNav,
                   exceptBoot>>

\* an AJAX navigation: location.href changes and the page content is replaced
Navigate ==
    \E newPath \in Paths, bad \in BOOLEAN :
        /\ domLoaded
        /\ url < MaxNavigations
        /\ url' = url + 1
        /\ path' = newPath
        /\ badInput' = bad
        /\ mutated' = FALSE
        /\ atNav' = [features |-> featureRuns, testResults |-> trInits,
                     tag |-> tagRuns, picker |-> pickerRuns]
        /\ UNCHANGED <<domLoaded, globalLoaded, tagScript, deferredType,
                       observer, lastUrl, reinitTimers, featureRuns, tagRuns,
                       pickerRuns, handled, uncaught, trInits, navInits,
                       exceptBoot>>

\* a DOM mutation: the MutationObserver callback, if one is registered
MutationObserved ==
    /\ domLoaded
    /\ mutated' = TRUE
    /\ IF observer /\ url # lastUrl
       THEN /\ lastUrl' = url
            /\ reinitTimers' = reinitTimers + 1          \* setTimeout(.., 100)
       ELSE UNCHANGED <<lastUrl, reinitTimers>>
    /\ UNCHANGED <<path, url, domLoaded, globalLoaded, tagScript, deferredType,
                   observer, badInput, featureRuns, tagRuns, pickerRuns,
                   handled, uncaught, atNav, trInits, navInits, exceptBoot>>

\* the 100 ms callback: initializeFeatures(detectPage())
ReinitTimerFires ==
    /\ reinitTimers > 0
    /\ featureRuns < MaxFeatureRuns
    /\ reinitTimers' = reinitTimers - 1
    /\ initializeFeatures(detectPage(path), 0)
    /\ uncaught' = IF enhanceAccessibilityThrows THEN uncaught + 1 ELSE uncaught
    /\ UNCHANGED <<path, url, domLoaded, globalLoaded, tagScript, deferredType,
                   observer, lastUrl, badInput, tagRuns, pickerRuns, handled,
                   mutated, atNav, exceptBoot>>

(***************************************************************************)
(* Tag preview (tag_admin.js, addTagPreview)                               *)
(***************************************************************************)
exceptPreview == <<colorVars, historyVars, tooltipVars, posVars, pickerVars,
                   panelVars, advVars, tableVars, bootVars,
                   smartVars>>

DefaultName == <<"N", "o", "m", " ", "d", "u", " ", "t", "a", "g">>
DefaultColor == <<"#", "6", "b", "7", "2", "8", "0">>
White == <<"w", "h", "i", "t", "e">>
InitialBorder == <<"#", "e", "2", "e", "8", "f", "0">>

\* what the user may have in the name input and in the colour input: for the
\* colour a 6-digit and a 3-digit hex colour, a colour half typed, a name
NameValues == { <<>>, <<"a">>, <<"a", "b">> }
ColorValues ==
    { <<>>, <<"#", "f", "f", "0", "0", "0", "0">>, <<"#", "0", "f", "0">>,
      <<"#", "f", "f", "0", "0", "0">>, <<"r", "e", "d">> }

\* element.style.<colour property> = value: the browser keeps the old value
\* when it cannot parse the new one
assignColor(old, value) == IF styleColorAccepts(value) THEN value ELSE old

\* the badge's background and border after updatePreview() with this colour
badgeStyle(color, bg, bd) ==
    IF isValidColor(color)
    THEN [background |-> assignColor(bg, hexToRgba(color, 1)),
          border |-> assignColor(bd, color)]
    ELSE [background |-> bg, border |-> bd]

\* updatePreview(): the preview it leaves for these input values
updatePreview(name, colorIn, dot, bg, bd) ==
    LET n == IF name = <<>> THEN DefaultName ELSE name
        color == IF colorIn = <<>> THEN DefaultColor ELSE colorIn
        b == badgeStyle(color, bg, bd)
    IN  [name |-> n, dot |-> assignColor(dot, color),
         background |-> b.background, border |-> b.border]

InitPreview ==
    /\ formInputs \in BOOLEAN
    /\ previewReady = FALSE
    /\ nameValue \in NameValues
    /\ colorValue \in ColorValues
    /\ previewName = DefaultName
    /\ dotColor = <<>>
    /\ tagBackground = White
    /\ tagBorder = InitialBorder
    /\ lastInput = "none"

\* addTagUtilities() on DOMContentLoaded: addTagPreview(tagForm)
AddTagPreview ==
    /\ ~previewReady
    /\ formInputs                    \* if (!nameInput || !colorInput) return;
    /\ previewReady' = TRUE
    /\ LET r == updatePreview(nameValue, colorValue, <<>>, White, InitialBorder)
       IN  /\ previewName' = r.name
           /\ dotColor' = r.dot
           /\ tagBackground' = r.background
           /\ tagBorder' = r.border
    /\ UNCHANGED <<formInputs, nameValue, colorValue, lastInput, exceptPreview>>

\* the listeners' effect after the inputs took the values name and colorIn
afterInput(name, colorIn) ==
    IF previewReady
    THEN LET r == updatePreview(name, colorIn, dotColor, tagBackground,
                                tagBorder)
         IN  /\ previewName' = r.name
             /\ dotColor' = r.dot
             /\ tagBackground' = r.background
             /\ tagBorder' = r.border
    ELSE UNCHANGED <<previewName, dotColor, tagBackground, tagBorder>>

\* the user edits the name: 'input' event on the name input
InputName ==
    \E v \in NameValues :
        /\ formInputs
        /\ v # nameValue
        /\ nameValue' = v
        /\ afterInput(v, colorValue)
        /\ lastInput' = "name"
        /\ UNCHANGED <<formInputs, previewReady, colorValue, exceptPreview>>

\* the user edits the colour: 'input' event on the colour input
InputColor ==
    \E v \in ColorValues :
        /\ formInputs
        /\ v # colorValue
        /\ colorValue' = v
        /\ afterInput(nameValue, v)
        /\ lastInput' = "color"
        /\ UNCHANGED <<formInputs, previewReady, nameValue, exceptPreview>>

(***************************************************************************)
(* Smart tooltips of the results table (tag_admin.js, createSmartTooltip)  *)
(***************************************************************************)
exceptSmart == <<colorVars, historyVars, tooltipVars, posVars, pickerVars,
                 panelVars, advVars, tableVars, bootVars, previewVars>>

MaxSmartTooltips == 3
MaxSmartTimers == 3
MaxSmartIds == 6

\* the delay of each kind of timer, in milliseconds
ShowDelay == 500
HideDelay == 100
RemovalDelay == 200
delayOf(kind) ==
    IF kind = "show" THEN ShowDelay
    ELSE IF kind = "hide" THEN HideDelay ELSE RemovalDelay

InitSmart ==
    /\ smTooltip = 0                     \* let tooltip = null;
    /\ smAttached = {}
    /\ smCreated = 0
    /\ smTimers = <<>>
    /\ smNextId = 1
    /\ showTimeout = 0                   \* let showTimeout = null;
    /\ hideTimeout = 0                   \* let hideTimeout = null;
    /\ smHovered = FALSE
    /\ smFocused = FALSE
    /\ smErrors = 0

\* clearTimeout(id): the pending timers without the one of that id
clearTimeout(ts, id) == SelectSeq(ts, LAMBDA t : t.id # id)

\* showTooltip(e): the listener of mouseenter and focus
smartShowTooltip ==
    /\ smNextId <= MaxSmartIds
    /\ Len(clearTimeout(smTimers, hideTimeout)) < MaxSmartTimers
    /\ smTimers' = Append(clearTimeout(smTimers, hideTimeout),
                          [kind |-> "show", id |-> smNextId])
    /\ showTimeout' = smNextId
    /\ smNextId' = smNextId + 1
    /\ UNCHANGED <<smTooltip, smAttached, smCreated, hideTimeout, smErrors>>

\* hideTooltip(): the listener of mouseleave and blur
smartHideTooltip ==
    IF smTooltip # 0                                     \* if (tooltip)
    THEN /\ smNextId <= MaxSmartIds
         /\ Len(clearTimeout(smTimers, showTimeout)) < MaxSmartTimers
         /\ smTimers' = Append(clearTimeout(smTimers, showTimeout),
                               [kind |-> "hide", id |-> smNextId])
         /\ hideTimeout' = smNextId
         /\ smNextId' = smNextId + 1
         /\ UNCHANGED <<smTooltip, smAttached, smCreated, showTimeout,
                        smErrors>>
    ELSE /\ smTimers' = clearTimeout(smTimers, showTimeout)
         /\ UNCHANGED <<smTooltip, smAttached, smCreated, smNextId,
                        showTimeout, hideTimeout, smErrors>>

MouseEnterTrigger ==
    /\ ~smHovered
    /\ smHovered' = TRUE
    /\ smartShowTooltip
    /\ UNCHANGED <<smFocused, exceptSmart>>

FocusTrigger ==
    /\ ~smFocused
    /\ smFocused' = TRUE
    /\ smartShowTooltip
    /\ UNCHANGED <<smHovered, exceptSmart>>

MouseLeaveTrigger ==
    /\ smHovered
    /\ smHovered' = FALSE
    /\ smartHideTooltip
    /\ UNCHANGED <<smFocused, exceptSmart>>

BlurTrigger ==
    /\ smFocused
    /\ smFocused' = FALSE
    /\ smartHideTooltip
    /\ UNCHANGED <<smHovered, exceptSmart>>

\* the timer at index i may fire next: no timer set before it is due sooner
\* or at the same time (a timer set earlier with a delay that is not longer)
smartMayFire(i) ==
    \A j \in 1..(i - 1) :
        delayOf(smTimers[j].kind) > delayOf(smTimers[i].kind)

smartWithout(i) ==
    SubSeq(smTimers, 1, i - 1) \o SubSeq(smTimers, i + 1, Len(smTimers))

\* the 500 ms callback: a new tooltip is created, assigned to the closure's
\* variable and appended to document.body
SmartShowTimerFires ==
    \E i \in 1..Len(smTimers) :
        /\ smTimers[i].kind = "show"
        /\ smartMayFire(i)
        /\ smCreated < MaxSmartTooltips
        /\ smCreated' = smCreated + 1
        /\ smTooltip' = smCreated + 1
        /\ smAttached' = smAttached \cup {smCreated + 1}
        /\ smTimers' = smartWithout(i)
        /\ UNCHANGED <<smNextId, showTimeout, hideTimeout, smHovered,
                       smFocused, smErrors, exceptSmart>>

\* the 100 ms callback: fades the closure's tooltip (a TypeError when the
\* variable is null by now) and sets the 200 ms removal timer
SmartHideTimerFires ==
    \E i \in 1..Len(smTimers) :
        /\ smTimers[i].kind = "hide"
        /\ smartMayFire(i)
        /\ IF smTooltip = 0
           THEN /\ smErrors' = 1
                /\ smTimers' = smartWithout(i)
                /\ UNCHANGED smNextId
           ELSE /\ smNextId <= MaxSmartIds
                /\ smTimers' = Append(smartWithout(i),
                                      [kind |-> "remove", id |-> smNextId])
                /\ smNextId' = smNextId + 1
                /\ UNCHANGED smErrors
        /\ UNCHANGED <<smTooltip, smAttached, smCreated, showTimeout,
                       hideTimeout, smHovered, smFocused, exceptSmart>>

\* the 200 ms callback: detaches the tooltip the closure's variable holds
\* at that moment and sets the variable to null
SmartRemovalTimerFires ==
    \E i \in 1..Len(smTimers) :
        /\ smTimers[i].kind = "remove"
        /\ smartMayFire(i)
        /\ smAttached' = smAttached \ {smTooltip}
        /\ smTooltip' = 0
        /\ smTimers' = smartWithout(i)
        /\ UNCHANGED <<smCreated, smNextId, showTimeout, hideTimeout,
                       smHovered, smFocused, smErrors, exceptSmart>>

(***************************************************************************)
(* Specifications: the page as a whole, and each script on its own while   *)
(* the others are at rest                                                  *)
(***************************************************************************)
RestColor ==
    /\ colorArg = <<>> /\ alphaArg = 10 /\ call = "none" /\ result = FALSE

RestHistory ==
    /\ history = <<>> /\ prevHistory = <<>> /\ lastAdded = <<>> /\ adds = 0
    /\ lastChange = NoChange

RestPosition ==
    /\ geom = [left |-> 0, top |-> 0, width |-> Unit, height |-> Unit,
               tw |-> 2 * Unit, th |-> Unit, vw |-> 4 * Unit, vh |-> 4 * Unit]
    /\ pos = NoPos

RestPicker ==
    /\ script = "widget"
    /\ page = [helptext |-> {}, section |-> FALSE, sectionColors |-> {},
               container |-> TRUE, input |-> TRUE, rendUsed |-> {}]
    /\ listeners = 0 /\ inputValue = OtherColor /\ valueText = <<>>
    /\ selected = {} /\ used = {} /\ crosses = [p \in Presets |-> 0]
    /\ notifications = 0 /\ crossTimers = 0 /\ lastClick = NoClick

RestPanel ==
    /\ panelPresent = TRUE /\ display = "none" /\ overlayHidden = TRUE
    /\ translate0 = FALSE /\ translateFull = TRUE /\ overflow = ""
    /\ panelTimers = <<>> /\ fadeIn = {} /\ lastRequest = "none"
    /\ htmxDefined = TRUE /\ glue = "loading" /\ csrfField = Null
    /\ lastConfig = NoConfig

RestAdvanced ==
    /\ advInits = 0 /\ advValue = <<>> /\ originalValue = Undefined
    /\ advSelected = {} /\ advTimers = <<>> /\ hovered = 0
    /\ background = <<>> /\ textColor = <<>> /\ clickedInHover = 0
    /\ lastLeave = NoLeave
    /\ enterValue = Undefined

RestTable ==
    /\ trInits = 0 /\ navInits = 0 /\ linkCols = {1} /\ focus = <<1, 1>>
    /\ checked = {} /\ rowSelected = {} /\ lastKey = NoKey
    /\ lastRowClick = NoRowClick

RestBoot ==
    /\ path = <<"reports">> /\ url = 0 /\ domLoaded = FALSE
    /\ globalLoaded = FALSE /\ tagScript = TRUE /\ deferredType = "none"
    /\ observer = FALSE /\ lastUrl = 0 /\ reinitTimers = 0
    /\ badInput = FALSE /\ featureRuns = 0 /\ tagRuns = 0 /\ pickerRuns = 0
    /\ handled = 0 /\ uncaught = 0 /\ mutated = FALSE /\ atNav = NoRuns

RestSmart ==
    /\ smTooltip = 0 /\ smAttached = {} /\ smCreated = 0 /\ smTimers = <<>>
    /\ smNextId = 1 /\ showTimeout = 0 /\ hideTimeout = 0
    /\ smHovered = FALSE /\ smFocused = FALSE /\ smErrors = 0

RestPreview ==
    /\ formInputs = TRUE /\ previewReady = FALSE /\ nameValue = <<>>
    /\ colorValue = <<>> /\ previewName = DefaultName /\ dotColor = <<>>
    /\ tagBackground = White /\ tagBorder = InitialBorder
    /\ lastInput = "none"

\* every script but the colour utilities at rest, and so on
RestButColor ==
    RestHistory /\ InitTooltip /\ RestPosition /\ RestPicker /\ RestPanel
        /\ RestAdvanced /\ RestTable /\ RestBoot /\ RestPreview /\ RestSmart
RestButHistory ==
    RestColor /\ InitTooltip /\ RestPosition /\ RestPicker /\ RestPanel
        /\ RestAdvanced /\ RestTable /\ RestBoot /\ RestPreview /\ RestSmart
RestButPosition ==
    RestColor /\ RestHistory /\ InitTooltip /\ RestPicker /\ RestPanel
        /\ RestAdvanced /\ RestTable /\ RestBoot /\ RestPreview /\ RestSmart
RestButTooltip ==
    RestColor /\ RestHistory /\ RestPosition /\ RestPicker /\ RestPanel
        /\ RestAdvanced /\ RestTable /\ RestBoot /\ RestPreview /\ RestSmart
RestButPicker ==
    RestColor /\ RestHistory /\ InitTooltip /\ RestPosition /\ RestPanel
        /\ RestAdvanced /\ RestTable /\ RestBoot /\ RestPreview /\ RestSmart
RestButAdvanced ==
    RestColor /\ RestHistory /\ InitTooltip /\ RestPosition /\ RestPicker
        /\ RestPanel /\ RestTable /\ RestBoot /\ RestPreview /\ RestSmart
RestButTable ==
    RestColor /\ RestHistory /\ InitTooltip /\ RestPosition /\ RestPicker
        /\ RestPanel /\ RestAdvanced /\ RestBoot /\ RestPreview /\ RestSmart
RestButBoot ==
    RestColor /\ RestHistory /\ InitTooltip /\ RestPosition /\ RestPicker
        /\ RestPanel /\ RestAdvanced /\ RestTable /\ RestPreview /\ RestSmart
RestButPanel ==
    RestColor /\ RestHistory /\ InitTooltip /\ RestPosition /\ RestPicker
        /\ RestAdvanced /\ RestTable /\ RestBoot /\ RestPreview /\ RestSmart

RestButPreview ==
    RestColor /\ RestHistory /\ InitTooltip /\ RestPosition /\ RestPicker
        /\ RestPanel /\ RestAdvanced /\ RestTable /\ RestBoot /\ RestSmart

RestButSmart ==
    RestColor /\ RestHistory /\ InitTooltip /\ RestPosition /\ RestPicker
        /\ RestPanel /\ RestAdvanced /\ RestTable /\ RestBoot /\ RestPreview

NextSmart ==
    \/ MouseEnterTrigger
    \/ FocusTrigger
    \/ MouseLeaveTrigger
    \/ BlurTrigger
    \/ SmartShowTimerFires
    \/ SmartHideTimerFires
    \/ SmartRemovalTimerFires

NextPreview == AddTagPreview \/ InputName \/ InputColor

NextColor == CallIsValidColor \/ CallIsValidColorAdvanced \/ CallHexToRgba

NextHistory == AddToColorHistory \/ HistoryChangeListener

NextPosition == PositionGlobal \/ PositionSmart

NextTooltip == ShowTooltip \/ HideTooltip \/ RemovalTimerFires

NextPicker ==
    \/ RunInitColorPicker
    \/ CrossTimerFires
    \/ ClickPreset
    \/ NotificationExpires
    \/ InputChange

NextPanel ==
    \/ OpenTestPanel
    \/ CloseTestPanel
    \/ EscapeKey
    \/ AfterSwap
    \/ OpenTimerFires
    \/ CloseTimerFires
    \/ GlueDOMContentLoaded
    \/ ConfigRequest
    \/ CsrfFieldChanges

NextAdvanced ==
    \/ SetupColorPalette
    \/ ClickOption
    \/ SelectionTimerFires
    \/ MouseEnterOption
    \/ MouseLeaveOption
    \/ TypeValue

NextTable ==
    \/ InitializeTestResults
    \/ PressArrowKey
    \/ ClickRow

NextBoot ==
    \/ LoadGlobalScript
    \/ DOMContentLoaded
    \/ Navigate
    \/ MutationObserved
    \/ ReinitTimerFires

\* the colour utilities applied to every input string
InitSpecColor == InitColor /\ RestButColor
SpecColor == InitSpecColor /\ [][NextColor]_vars

\* the colour history
InitSpecHistory == InitHistory /\ RestButHistory
SpecHistory == InitSpecHistory /\ [][NextHistory]_vars

\* the positioning arithmetic applied to every geometry
InitSpecPosition == InitPosition /\ RestButPosition
SpecPosition == InitSpecPosition /\ [][NextPosition]_vars

\* the global tooltip manager
InitSpecTooltip == InitTooltip /\ RestButTooltip
SpecTooltip == InitSpecTooltip /\ [][NextTooltip]_vars

\* the colour picker widget
InitSpecPicker == InitPicker /\ RestButPicker
SpecPicker == InitSpecPicker /\ [][NextPicker]_vars

\* the test detail panel
InitSpecPanel == InitPanel /\ RestButPanel
SpecPanel == InitSpecPanel /\ [][NextPanel]_vars

\* the advanced colour picker
InitSpecAdvanced == InitAdvanced /\ RestButAdvanced
SpecAdvanced == InitSpecAdvanced /\ [][NextAdvanced]_vars

\* the results table
InitSpecTable == InitTable /\ RestButTable
SpecTable == InitSpecTable /\ [][NextTable]_vars

\* page load and navigation
InitSpecBoot == InitBoot /\ RestButBoot
SpecBoot == InitSpecBoot /\ [][NextBoot]_vars

\* the tag preview
InitSpecPreview == InitPreview /\ RestButPreview
SpecPreview == InitSpecPreview /\ [][NextPreview]_vars

\* the smart tooltip of one trigger
InitSpecSmart == InitSmart /\ RestButSmart
SpecSmart == InitSpecSmart /\ [][NextSmart]_vars

\* all scripts on one page
Init ==
    /\ InitColor /\ InitHistory /\ InitTooltip /\ InitPosition /\ InitPicker
    /\ InitPanel /\ InitAdvanced /\ InitTable /\ InitBoot /\ InitPreview /\ InitSmart
Next ==
    \/ NextColor \/ NextHistory \/ NextPosition \/ NextTooltip \/ NextPicker
    \/ NextPanel \/ NextAdvanced \/ NextTable \/ NextBoot \/ NextPreview \/ NextSmart
Spec == Init /\ [][Next]_vars

(***************************************************************************)
(* Properties                                                              *)
(***************************************************************************)

\* C1: a click on a colour preset that carries the 'used' marker never
\* changes the value of the container's colour input, whichever colour
\* picker script the page runs and however often initColorPicker has run.
C1_UsedClickKeepsValue ==
    (lastClick.preset # 0 /\ lastClick.wasUsed)
        => lastClick.after = lastClick.before

\* C2: at most one '.global-tooltip' element is attached to the document in
\* every reachable state of the tooltip manager.
C2_AtMostOneTooltip == Cardinality(attached) <= 1

\* C3: when showTooltip returns, the elements attached before the call are
\* detached: the new tooltip is the only one attached, without any timer
\* having to fire.
C3_PreviousDetachedOnShow ==
    lastShow.new # 0 => lastShow.after = {lastShow.new}

\* C4: once every pending 200 ms timer has fired, no tooltip element whose
\* showTooltip call was followed by a hideTooltip call is still attached.
C4_HiddenTooltipsDetached ==
    timers = 0 => attached \cap hideFollowed = {}

\* the trigger rectangle lies inside the viewport
RectInViewport(g) ==
    /\ 0 <= g.left /\ g.left + g.width <= g.vw
    /\ 0 <= g.top /\ g.top + g.height <= g.vh

\* the tooltip is narrow enough for both margins
FitsWidth(g) == g.tw <= g.vw - 2 * Margin

\* C5 as stated: for every geometry the computed left offset (global and
\* smart tooltip) satisfies 8 <= left <= viewportWidth - tooltipWidth - 8.
C5_LeftWithinMargins ==
    pos.kind # "none" =>
        /\ 2 * Margin <= pos.left2
        /\ pos.left2 <= 2 * (geom.vw - geom.tw - Margin)

\* C5 amended: left <= viewportWidth - tooltipWidth - 8 always; 8 <= left
\* when the tooltip is no wider than viewportWidth - 16; a wider tooltip is
\* put at exactly viewportWidth - tooltipWidth - 8, which is below 8.
C5_LeftWithinMarginsWhenFits ==
    pos.kind # "none" =>
        /\ pos.left2 <= 2 * (geom.vw - geom.tw - Margin)
        /\ FitsWidth(geom) => 2 * Margin <= pos.left2
        /\ ~FitsWidth(geom) =>
              /\ pos.left2 = 2 * (geom.vw - geom.tw - Margin)
              /\ pos.left2 < 2 * Margin

\* a smart tooltip that fits and that the right-hand clamp has moved
C5_Witness ==
    /\ pos.kind = "smart"
    /\ FitsWidth(geom)
    /\ 2 * geom.left + geom.width - geom.tw > 2 * (geom.vw - geom.tw - Margin)
    /\ pos.left2 = 2 * (geom.vw - geom.tw - Margin)

\* C6: for a trigger inside the viewport and a tooltip that fits in it
\* (width <= vw - 16, height <= vh - 16), the global showTooltip keeps the
\* whole tooltip inside the viewport: 0 <= top, top + height <= vh,
\* 0 <= left, left + width <= vw.
C6_TooltipInsideViewport ==
    ( /\ pos.kind = "global"
      /\ RectInViewport(geom)
      /\ FitsWidth(geom)
      /\ geom.th <= geom.vh - 2 * Margin )
    =>  /\ 0 <= pos.top
        /\ pos.top + geom.th <= geom.vh
        /\ 0 <= pos.left2
        /\ pos.left2 + 2 * geom.tw <= 2 * geom.vw

\* C7: the persisted colour history has at most 10 entries and no two equal
\* entries, after any sequence of addToColorHistory calls on empty storage.
C7_HistoryBoundedNoDuplicates ==
    /\ Len(history) <= 10
    /\ \A i, j \in 1..Len(history) : i # j => history[i] # history[j]

\* a new colour was added to a list that already held ten
C7_Witness ==
    /\ adds > 0
    /\ Len(prevHistory) = 10
    /\ lastAdded \notin Range(prevHistory)
    /\ Len(history) = 10

\* C8: after addToColorHistory(c), c is at index 0; if c was present it is
\* moved, the length is unchanged and the other entries keep their order;
\* if c was absent and the list was full, exactly the last entry is dropped
\* (and nothing is dropped from a list that was not full).
C8_MostRecentFirst ==
    adds > 0 =>
        /\ Len(history) >= 1
        /\ history[1] = lastAdded
        /\ lastAdded \in Range(prevHistory) =>
              /\ Len(history) = Len(prevHistory)
              /\ Cardinality({i \in 1..Len(history) : history[i] = lastAdded}) = 1
              /\ Tail(history) = SelectSeq(prevHistory, LAMBDA c : c # lastAdded)
        /\ (lastAdded \notin Range(prevHistory) /\ Len(prevHistory) = 10) =>
              Tail(history) = SubSeq(prevHistory, 1, 9)
        /\ (lastAdded \notin Range(prevHistory) /\ Len(prevHistory) < 10) =>
              Tail(history) = prevHistory

\* a colour in the middle of a full list was added again
C8_Witness ==
    /\ adds > 0
    /\ Len(prevHistory) = 10
    /\ \E i \in 2..9 : prevHistory[i] = lastAdded
    /\ history[1] = lastAdded

\* '#' followed by exactly 3 or exactly 6 hexadecimal digits
IsHexColor(s) ==
    \E n \in {3, 6} :
        /\ Len(s) = n + 1
        /\ s[1] = "#"
        /\ \A i \in 2..(n + 1) : s[i] \in HexClass

\* C9 as stated: both definitions of isValidColor return true exactly for
\* '#' followed by exactly 3 or 6 hexadecimal digits.
C9_ValidIffHexColor ==
    call \in {"isValidColor", "isValidColorAdvanced"} =>
        result = IsHexColor(colorArg)

\* C9 amended: the tag admin isValidColor returns true exactly for '#' with
\* 3 or 6 hexadecimal digits; the advanced colour picker's returns true for
\* those and for every other non-empty string the browser accepts as a CSS
\* colour (a colour name, '#' with 4 or 8 digits), false for all the rest.
C9_ValidIffHexColorOrCss ==
    /\ call = "isValidColor" => result = IsHexColor(colorArg)
    /\ call = "isValidColorAdvanced" =>
          result = \/ IsHexColor(colorArg)
                   \/ (colorArg # <<>> /\ styleColorAccepts(colorArg))

\* the advanced colour picker accepted a string that is no hex colour
C9_Witness ==
    /\ call = "isValidColorAdvanced"
    /\ ~IsHexColor(colorArg)
    /\ result = TRUE

\* the red, green and blue channel of a hex colour: two digits each, or one
\* digit each standing for the digit doubled ('#f00' is '#ff0000')
ExpectedChannel(s, k) ==
    IF Len(s) = 7
    THEN 16 * HexDigitValue(s[2 * k]) + HexDigitValue(s[2 * k + 1])
    ELSE 17 * HexDigitValue(s[k + 1])

\* C10: for every colour isValidColor accepts and every alpha, hexToRgba
\* returns 'rgba(r, g, b, alpha)' with the colour's channel values, and
\* never its input.
C10_HexToRgbaOfValidColor ==
    (call = "hexToRgba" /\ isValidColor(colorArg)) =>
        /\ result = RgbaString(ExpectedChannel(colorArg, 1),
                               ExpectedChannel(colorArg, 2),
                               ExpectedChannel(colorArg, 3), alphaArg)
        /\ result # colorArg

\* C11: a click on a '.color-preset' element that has no enclosing
\* '.color-picker-widget-container', or whose container lacks the input its
\* data-input-name names, is a silent no-op: no listener throws, and the
\* input value, the selection and the notifications stay as they were.
C11_MissingElementClickIsNoOp ==
    (lastClick.preset # 0 /\ (~page.container \/ ~page.input)) =>
        /\ ~lastClick.threw
        /\ lastClick.after = lastClick.before
        /\ lastClick.selKept
        /\ lastClick.notesKept
\* C14: the tooltip attached by the most recent showTooltip call stays
\* attached until the next hideTooltip or showTooltip call: no removal timer
\* of an earlier hideTooltip (the one showTooltip issues included) detaches it.
C14_LatestTooltipStaysAttached ==
    \A e \in 1..created : e \notin hideFollowed => e \in attached
\* the panel shows every sign of being open
PanelOpen ==
    /\ display = "block"
    /\ ~overlayHidden
    /\ translate0
    /\ overflow = "hidden"

\* C12: when the last of openTestPanel / closeTestPanel called is
\* openTestPanel (directly or by htmx:afterSwap on 'test-detail-panel') and
\* every pending timer has fired, the panel is open: display 'block', overlay
\* not hidden, class translate-x-0, body overflow 'hidden'; also when a
\* close was requested less than 300 ms before the open.
C12_LastOpenWins ==
    (panelPresent /\ lastRequest = "open" /\ panelTimers = <<>>) => PanelOpen
\* C15: in an advanced colour picker, when the pointer leaves an option
\* that was clicked while it was hovered, the input's value is still that
\* option's colour: mouseleave does not revert a committed selection.
C15_CommittedValueSurvivesLeave ==
    lastLeave.committed # Undefined => lastLeave.value = lastLeave.committed
\* C17: after initColorPicker has run on a container that has its colour
\* input, in every state reached by preset clicks and input/change events a
\* preset carries 'selected' if and only if its data-color equals the
\* input's current value.
C17_SelectedIffValue ==
    (listeners > 0 /\ page.input) =>
        \A p \in Presets : p \in selected <=> PresetColor(p) = inputValue

\* a click changed the selection, and the clicked preset alone is selected
C17_Witness ==
    /\ listeners > 0 /\ page.input
    /\ lastClick.preset # 0
    /\ ~lastClick.selKept
    /\ inputValue = PresetColor(lastClick.preset)
    /\ selected = {lastClick.preset}

\* the used colours: those found in the help text, otherwise those of the
\* presets in the used-colours section
UsedColors ==
    IF page.helptext # {} THEN page.helptext
    ELSE IF page.section THEN page.sectionColors ELSE {}

\* C18: after addCrossesToUsedColors has run, every preset whose data-color
\* is a used colour carries 'used', and the only presets carrying 'used'
\* besides them are those the template rendered with it.
C18_UsedMarksUsedColors ==
    (script = "widget" /\ listeners > 0) =>
        /\ \A p \in Presets : PresetColor(p) \in UsedColors => p \in used
        /\ \A p \in used : p \in page.rendUsed \/ PresetColor(p) \in UsedColors

\* the used-colours section named one preset's colour and not the other's
C18_Witness ==
    /\ script = "widget" /\ listeners > 0
    /\ page.helptext = {} /\ page.section
    /\ \E p \in Presets : p \in used /\ p \notin page.rendUsed /\ crosses[p] = 1
    /\ \E q \in Presets : q \notin used
\* C13: with the table's keydown listener and the document's keydown
\* listener both registered, one arrow key press moves the focus to the
\* adjacent cell in that direction when there is one to focus: exactly one
\* cell, never two or more.
C13_ArrowMovesOneCell ==
    (lastKey.key # "none" /\ lastKey.both) => lastKey.steps = lastKey.expected

\* C16: however often initializeTestResultsEnhancements has run (at least
\* once), one click on a row outside links and inputs flips the row's
\* checkbox exactly once and leaves the row's class 'selected' equal to the
\* new checkbox state.
C16_RowClickFlipsOnce ==
    (lastRowClick.target = "TD" /\ lastRowClick.inits > 0) =>
        /\ lastRowClick.flipped
        /\ lastRowClick.agrees
\* C19: an exception thrown while initializeFeatures runs never leaves the
\* module uncaught: on the immediate call, on the call deferred to
\* DOMContentLoaded and on the 100 ms re-initialisation after a URL change
\* it is caught and handed to handleError.
C19_InitExceptionsHandled == uncaught = 0

\* C20: on a page that loads every script, after an AJAX navigation (the
\* URL has changed and the registered observer has seen a DOM mutation),
\* once the re-initialisation timer has fired every module has run its
\* initialisation again: the global initializer, the test-results
\* enhancements, the tag admin and the colour picker.
C20_AllModulesReinitialised ==
    (observer /\ tagScript /\ url > 0 /\ mutated /\ reinitTimers = 0) =>
        /\ featureRuns > atNav.features
        /\ trInits > atNav.testResults
        /\ tagRuns > atNav.tag
        /\ pickerRuns > atNav.picker

\* C21: initializeTestResultsEnhancements runs only on pages whose detected
\* type is 'test-results': on the page as loaded (before any navigation), if
\* it has run at all then the path contains '/admin/core/testresult/'.
C21_TestResultsOnlyOnTestResultsPages ==
    (url = 0 /\ trInits > 0) => detectPage(path) = "test-results"

\* the panel is displayed, by each of its four indicators
Displayed == display = "block"
OverlayShown == ~overlayHidden
ScrollLocked == overflow = "hidden"
SlidIn == translate0 /\ ~translateFull

\* C30: starting from a closed panel, whenever no panel timer is pending
\* the four indicators agree: displayed iff overlay shown iff body overflow
\* 'hidden' iff class translate-x-0 without translate-x-full.
C30_PanelIndicatorsAgree ==
    (panelPresent /\ panelTimers = <<>>) =>
        /\ Displayed <=> OverlayShown
        /\ OverlayShown <=> ScrollLocked
        /\ ScrollLocked <=> SlidIn

\* C27: in an advanced colour picker that has been set up, whenever no
\* animation timer is pending and no hover preview is active, an option
\* carries 'selected' if and only if its data-color equals the input's value
\* ignoring letter case; so the option just clicked is still selected after
\* its 300 ms timer has fired.
C27_SelectedIffValueIgnoringCase ==
    (advInits > 0 /\ advTimers = <<>> /\ hovered = 0
        /\ originalValue = Undefined) =>
        \A o \in Options :
            o \in advSelected
                <=> toLowerCase(OptionColor(o)) = toLowerCase(advValue)

\* C29: once addCrossesToUsedColors has run (initColorPicker and any of its
\* 200 ms deferred calls), every preset that carries 'used', whether the
\* template or the script set it, has exactly one '.used-cross' child.
C29_UsedPresetHasOneCross ==
    (script = "widget" /\ listeners > 0) =>
        \A p \in used : crosses[p] = 1

\* C28: in an advanced colour picker, when the pointer leaves an option it
\* entered with no click (and no typing) in between, the input's value is
\* exactly what it was before the mouseenter and dataset.originalValue is
\* no longer set.
C28_HoverIsPurePreview ==
    (advInits > 0 /\ lastLeave.before # Undefined) =>
        /\ lastLeave.value = lastLeave.before
        /\ lastLeave.cleared

\* a string isValidColor of the advanced colour picker accepts
IsHexOrCssColor(s) ==
    IsHexColor(s) \/ (s # <<>> /\ styleColorAccepts(s))

\* C23: every entry of the persisted colour history is '#' followed by 3 or
\* 6 hexadecimal digits, and a change event on an advanced colour picker
\* whose value is anything else leaves the history as it was.
C23_HistoryEntriesAreHex ==
    /\ \A i \in 1..Len(history) : IsHexColor(history[i])
    /\ (lastChange.picker /\ ~IsHexColor(lastChange.value)) => lastChange.kept

\* C23 amended: every entry of the persisted colour history is a hex colour
\* of 3 or 6 digits or another non-empty string the browser accepts as a CSS
\* colour; a change event whose target is no advanced colour picker, or
\* whose value is neither, leaves the history as it was.
C23_HistoryEntriesAreValidColors ==
    /\ \A i \in 1..Len(history) : IsHexOrCssColor(history[i])
    /\ (~lastChange.picker \/ ~IsHexOrCssColor(lastChange.value))
          => lastChange.kept

\* a colour name is in the history, and a later change event with a value
\* that is no colour left the history alone
C23_Witness ==
    /\ \E i \in 1..Len(history) : history[i] = <<"r", "e", "d">>
    /\ lastChange.picker
    /\ lastChange.value = <<"z", "z">>
    /\ lastChange.kept

\* C24: once the HTMX listeners are registered, an htmx:configRequest event
\* leaves with X-CSRFToken equal to the value the csrfmiddlewaretoken field
\* has at that moment and its other headers as they were; when the document
\* has no such field, the headers are as htmx built them.
C24_CsrfHeaderIsCurrentToken ==
    lastConfig.ready =>
        IF lastConfig.field # Null
        THEN /\ lastConfig.after["X-CSRFToken"] = lastConfig.field
             /\ \A n \in HeaderNames \ {"X-CSRFToken"} :
                    lastConfig.after[n] = lastConfig.before[n]
        ELSE lastConfig.after = lastConfig.before

\* a request that already carried another X-CSRFToken left with the value
\* of the field
C24_Witness ==
    /\ lastConfig.ready
    /\ lastConfig.field = <<"t", "2">>
    /\ lastConfig.before["X-CSRFToken"] = <<"t", "0">>
    /\ lastConfig.after["X-CSRFToken"] = <<"t", "2">>

\* C22: once the tag preview is set up, after an 'input' event on the name
\* or the colour input the preview shows the current values of both: the
\* name (or 'Nom du tag'), the dot in the colour (or '#6b7280'), the badge's
\* border in that colour and its background in the rgba derived from it.
C22_PreviewReflectsInputs ==
    (previewReady /\ lastInput # "none") =>
        LET color == IF colorValue = <<>> THEN DefaultColor ELSE colorValue
        IN  /\ previewName = (IF nameValue = <<>> THEN DefaultName
                              ELSE nameValue)
            /\ dotColor = color
            /\ tagBorder = color
            /\ tagBackground = hexToRgba(color, 1)

\* C25: at most one '.smart-tooltip' created for the trigger is attached to
\* the document at any time.
C25_AtMostOneSmartTooltip ==
    Cardinality(smAttached) <= 1

\* C26: when the trigger is neither hovered nor focused and no timer is
\* pending, no smart tooltip created for it is attached to the document.
C26_NoSmartTooltipLeftBehind ==
    (~smHovered /\ ~smFocused /\ smTimers = <<>>) => smAttached = {}

====
